---- MODULE Spec2Model ----
(***************************************************************************)
(* Receipt-to-entitlement pipeline of ios-iap-server.                      *)
(*                                                                         *)
(* The repository holds five deployment variants of one server.js:         *)
(*   "diag"        src/server.js lines 1-311                               *)
(*   "oid"         src/server.js lines 313-593 (adds /verify_by_oid)       *)
(*   "cjs"         src/unnamed/part_000 (CommonJS)                         *)
(*   "receiptOnly" src/unnamed/part_001 (verifyReceipt only, no Server API)*)
(*   "basic"       src/unnamed/part_002 (first version)                    *)
(* One of them is deployed; cfg.variant says which.                        *)
(*                                                                         *)
(* Conventions: a timestamp 0 is an absent timestamp, the string "" is an  *)
(* absent (null/undefined) string, "-" is an absent diagnostic field.      *)
(* Vendor status codes are written as strings ("0", "21007", "NON_JSON").  *)
(***************************************************************************)
EXTENDS Integers, Sequences, FiniteSets, TLC

VARIABLES
    cfg,    \* read-only configuration: variant, NODE_ENV, shared secret set
    req,    \* req[r]: body of request r: receipt_b64, product_id
    pc,     \* pc[r]: position of the handler of request r
    pos,    \* pos[r]: which legacy POST the resolver is awaiting
    net,    \* net[r]: outbound calls of request r, in issue order
    info,   \* info[r]: what the resolver returned
    out,    \* out[r]: the response the handler is about to send
    resp,   \* resp[r]: responses sent for request r
    dIn,    \* fixed input of the function under test: the records given to a
            \* decision function, or the answers the vendor holds for a blob
    dOut    \* result of the decision function under test

vars == <<cfg, req, pc, pos, net, info, out, resp, dIn, dOut>>

hvars == <<cfg, req, pc, pos, net, info, out, resp>>

dvars == <<dIn, dOut>>

-----------------------------------------------------------------------------
(* Bounds and program constants *)

MaxT == 2

MaxItems == 2

MinReceiptLen == 20

Times == 0..MaxT

Clock == 1..MaxT

Products == {"p1", "p2"}

Variants == {"diag", "oid", "cjs", "receiptOnly", "basic"}

\* variants whose handler calls the App Store Server API
LookupVariants == {"diag", "oid", "cjs", "basic"}

\* variants whose resolver validates the blob before any network call
ValidatingVariants == {"diag", "oid", "cjs"}

-----------------------------------------------------------------------------
(* Request bodies *)

Receipts ==
    {[type |-> "undefined", len |-> 0], [type |-> "number", len |-> 0]}
    \cup {[type |-> "string", len |-> n] : n \in {0, MinReceiptLen - 1, MinReceiptLen}}

\* JavaScript truthiness of receipt_b64: undefined and "" are falsy
Truthy(rc) == (rc.type = "string" /\ rc.len > 0) \/ rc.type = "number"

\* the resolver's input validation
Malformed(rc) == ~Truthy(rc) \/ rc.type # "string" \/ rc.len < MinReceiptLen

-----------------------------------------------------------------------------
(* Legacy /verifyReceipt payloads *)

LegacyStatuses == {"0", "21007", "21008", "21004"}

Entry(pid, exp, purch, canc, otid) ==
    [product_id |-> pid, expires_date_ms |-> exp, purchase_date_ms |-> purch,
     cancellation_date_ms |-> canc, original_transaction_id |-> otid]

Renewal(pid, auto, grace) ==
    [product_id |-> pid, auto_renew_product_id |-> auto,
     grace_period_expires_date_ms |-> grace]

Json(st, hasLri, lri, hasReceipt, hasInApp, inApp, hasPri, pri) ==
    [status |-> st, hasLri |-> hasLri, latest_receipt_info |-> lri,
     hasReceipt |-> hasReceipt, hasInApp |-> hasInApp, in_app |-> inApp,
     hasPri |-> hasPri, pending_renewal_info |-> pri]

SentinelJson(st) == Json(st, FALSE, <<>>, FALSE, FALSE, <<>>, FALSE, <<>>)

-----------------------------------------------------------------------------
(* Diagnostics attached to results and responses *)

NoDebug ==
    [present |-> FALSE, status |-> "-", note |-> "-", hasLatest |-> "-",
     hasReceipt |-> "-", error |-> "-", receiptLen |-> -1,
     httpStatusCode |-> -1, keyId |-> "-", seenProducts |-> {}, graceMs |-> -1]

Debug == [NoDebug EXCEPT !.present = TRUE]

BoolStr(b) == IF b THEN "true" ELSE "false"

-----------------------------------------------------------------------------
(* Legacy Receipt Resolver *)

\* What the vendor endpoint can answer to one POST:
\*   a JSON object, a body that is not JSON, or no answer (fetch rejects).
JsonReply(j) == [kind |-> "json", json |-> j]

NonJsonReply == [kind |-> "nonjson", json |-> SentinelJson("NON_JSON")]

NetErrReply == [kind |-> "neterr", json |-> SentinelJson("NETWORK_ERROR")]

\* postVerifyReceipt / post / postJsonWithTimeout: the value the helper returns
\* for a vendor reply, or threw = TRUE when the helper throws.
postVerifyReceipt(variant, reply) ==
    CASE reply.kind = "json" -> [threw |-> FALSE, json |-> reply.json]
      [] reply.kind = "nonjson" ->
            IF variant = "basic"
            THEN [threw |-> TRUE, json |-> reply.json]                  \* r.json() rejects
            ELSE [threw |-> FALSE, json |-> SentinelJson("NON_JSON")]
      [] OTHER ->
            IF variant = "receiptOnly"
            THEN [threw |-> FALSE, json |-> SentinelJson("NETWORK_ERROR")]
            ELSE [threw |-> TRUE, json |-> reply.json]

\* The endpoint the first POST goes to.
startUrl(nodeEnv) == IF nodeEnv = "production" THEN "prod" ELSE "sandbox"

\* a redirect sent back to the endpoint that issued it
RedirectHopMutant(variant, p, st) ==
    IF p # "first" THEN "done"
    ELSE IF st = "21007" THEN "prod"
    ELSE IF st = "21008" THEN "sandbox"
    ELSE "done"

\* redirects followed in a loop, as long as the endpoints send them
RedirectHopLoop(variant, p, st) ==
    IF st = "21007" THEN "sandbox"
    ELSE IF st = "21008" THEN "prod"
    ELSE "done"

\* a retry budget kept in a module-level flag: once any resolution has retried,
\* no resolution retries again
RedirectHopShared(variant, p, st) ==
    IF \E q \in DOMAIN net : Len(net[q]) >= 2 THEN "done"
    ELSE IF p # "first" THEN "done"
    ELSE IF st = "21007" THEN "sandbox"
    ELSE IF st = "21008" THEN "prod"
    ELSE "done"

\* The environment-redirect checks that follow the POST awaited at position p
\* when it returned status st: the endpoint of the next POST, or "done".
\* All variants but "basic" run two consecutive ifs; "basic" runs if / else if.
RedirectHop(variant, p, st) ==
    IF variant = "basic"
    THEN IF p # "first" THEN "done"
         ELSE IF st = "21007" THEN "sandbox"
         ELSE IF st = "21008" THEN "prod"
         ELSE "done"
    ELSE CASE p = "first" ->
                 IF st = "21007" THEN "sandbox"
                 ELSE IF st = "21008" THEN "prod"
                 ELSE "done"
           [] p = "sandboxRetry" -> IF st = "21008" THEN "prod" ELSE "done"
           [] OTHER -> "done"

HopPos(url) == IF url = "sandbox" THEN "sandboxRetry" ELSE "prodRetry"

\* latest_receipt_info.reduce((a, b) => Number(a.expires_date_ms || 0) >
\*                                       Number(b.expires_date_ms || 0) ? a : b)
RECURSIVE ReduceLatest(_, _, _)
ReduceLatest(lri, a, i) ==
    IF i > Len(lri) THEN a
    ELSE ReduceLatest(lri, IF a.expires_date_ms > lri[i].expires_date_ms THEN a ELSE lri[i], i + 1)

Latest(lri) == ReduceLatest(lri, lri[1], 2)

\* The resolver's result: ret is the JavaScript type of the returned value
\* ("object" {originalTxId, debug}; "string" or "null" in variant "basic").
Info(ret, id, dbg) == [ret |-> ret, originalTxId |-> id, debug |-> dbg, threw |-> FALSE]

NoInfo == Info("none", "", NoDebug)

ResolverThrew == [Info("none", "", NoDebug) EXCEPT !.threw = TRUE]

\* catch (e) of the resolver: { originalTxId: null, debug: { error } }
ResolverCaught == Info("object", "", [Debug EXCEPT !.error = "error"])

\* the input validation at the head of the resolver
MalformedInfo == Info("object", "", [Debug EXCEPT !.status = "21002", !.note = "malformed"])

\* server.js 123-167: the part of the resolver after the redirect checks
ExtractDiag(json) ==
    IF json.status = "0"
    THEN LET id1 == IF json.hasLri /\ Len(json.latest_receipt_info) > 0
                    THEN Latest(json.latest_receipt_info).original_transaction_id
                    ELSE ""
             id  == IF id1 = "" /\ json.hasReceipt /\ json.hasInApp /\ Len(json.in_app) > 0
                    THEN json.in_app[1].original_transaction_id
                    ELSE id1
         IN  IF id # ""
             THEN Info("object", id, [Debug EXCEPT !.status = "0"])
             ELSE Info("object", "", [Debug EXCEPT !.status = "0", !.note = "no-id"])
    ELSE Info("object", "",
              [Debug EXCEPT !.status = json.status,
                            !.hasLatest = BoolStr(json.hasLri),
                            !.hasReceipt = BoolStr(json.hasReceipt)])

\* server.js 432-447 and part_000 90-101: reduce of an empty array throws a
\* TypeError, which the resolver's own catch turns into { debug: { error } }
ExtractOid(json) ==
    IF json.status = "0" /\ json.hasLri
    THEN IF Len(json.latest_receipt_info) = 0
         THEN ResolverCaught
         ELSE Info("object", Latest(json.latest_receipt_info).original_transaction_id,
                   [Debug EXCEPT !.status = "0"])
    ELSE Info("object", "",
              [Debug EXCEPT !.status = json.status, !.hasLatest = BoolStr(json.hasLri)])

\* part_002 76-85: returns the bare identifier (or null) on success, but an
\* object { originalTxId: null, debug } otherwise; nothing catches a throw
ExtractBasic(json) ==
    IF json.status = "0" /\ json.hasLri
    THEN IF Len(json.latest_receipt_info) = 0
         THEN ResolverThrew
         ELSE LET id == Latest(json.latest_receipt_info).original_transaction_id
              IN  Info(IF id = "" THEN "null" ELSE "string", id, NoDebug)
    ELSE Info("object", "",
              [Debug EXCEPT !.status = json.status, !.hasLatest = BoolStr(json.hasLri)])

Extract(variant, json) ==
    CASE variant = "diag" -> ExtractDiag(json)
      [] variant = "basic" -> ExtractBasic(json)
      [] OTHER -> ExtractOid(json)

\* a resolver without its own try/catch
ResolverOnThrowMutant(variant) == ResolverThrew

\* the resolver's result when a POST throws: caught inside, except in "basic"
ResolverOnThrow(variant) == IF variant = "basic" THEN ResolverThrew ELSE ResolverCaught

\* a resolver whose input check was dropped
ValidatesInputMutant(variant) == FALSE

\* Does the resolver check its input before the first POST?
ValidatesInput(variant) == variant \in ValidatingVariants

\* the handler's test of the resolver's result:
\*   !info?.originalTxId, and in "basic" !originalTransactionId on the value itself
HasNoId(variant, i) ==
    IF variant = "basic" THEN i.ret = "null" ELSE i.originalTxId = ""

\* the key handed to getAllSubscriptionStatuses
LookupKey(variant, i) ==
    IF variant = "basic" /\ i.ret = "object" THEN "[object]" ELSE i.originalTxId

-----------------------------------------------------------------------------
(* Status Decoder and Entitlement Resolver *)

\* One item of a status group after decoding. dec says what
\* decodeTransaction(item.signedTransactionInfo) did: returned a record ("ok"),
\* returned nothing ("undef") or threw ("throw"). gracePeriodExpiresDate is the
\* field of the separately decoded renewal record (0: absent).
Item(dec, pid, exp, rev, canc, grace) ==
    [dec |-> dec, productId |-> pid, expiresDate |-> exp, revocationDate |-> rev,
     cancellationDate |-> canc, gracePeriodExpiresDate |-> grace]

\* for (group of data) for (item of group.lastTransactions): the iteration order
RECURSIVE Flatten(_)
Flatten(data) == IF data = <<>> THEN <<>> ELSE Head(data) \o Flatten(Tail(data))

\* An entitlement decision. sel is the position, in iteration order, of the
\* record the decision reports (0: none); reason "-" is an absent reason.
Decision(active, pid, exp, reason, dbg, sel) ==
    [threw |-> FALSE, active |-> active, productId |-> pid, expiresAt |-> exp,
     reason |-> reason, debug |-> dbg, sel |-> sel]

NoDecision == Decision(FALSE, "", 0, "-", NoDebug, 0)

DecisionThrew == [NoDecision EXCEPT !.threw = TRUE]

\* const cancelled = Boolean(tx?.revocationDate) || Boolean(tx?.cancellationDate)
TxCancelledMutant(it) == FALSE

TxCancelled(it) == it.dec = "ok" /\ (it.revocationDate # 0 \/ it.cancellationDate # 0)

\* a candidate that is still active at the instant of its expiry
CandidateInclusive(it, now) ==
    LET expiresMs == IF it.dec = "ok" THEN it.expiresDate ELSE 0
        graceMs   == it.gracePeriodExpiresDate
    IN  [productId |-> IF it.dec = "ok" THEN it.productId ELSE "",
         expiresAt |-> expiresMs,
         active    |-> ~TxCancelled(it) /\ (expiresMs >= now \/ graceMs > now)]

\* the candidate built from one item in the loop body
Candidate(it, now) ==
    LET expiresMs == IF it.dec = "ok" THEN it.expiresDate ELSE 0
        graceMs   == it.gracePeriodExpiresDate
    IN  [productId |-> IF it.dec = "ok" THEN it.productId ELSE "",
         expiresAt |-> expiresMs,
         active    |-> ~TxCancelled(it) /\ (expiresMs > now \/ graceMs > now)]

\* if (targetProductId && tx?.productId !== targetProductId) continue
TxSkipped(it, target) ==
    target # "" /\ (IF it.dec = "ok" THEN it.productId ELSE "") # target

\* the loop: acc = [has, newest, sel, seen], i the next position
RECURSIVE StatusLoop(_, _, _, _, _)
StatusLoop(items, target, now, acc, i) ==
    IF i > Len(items) THEN acc
    ELSE LET it   == items[i]
             seen == IF it.dec = "ok" /\ it.productId # ""
                     THEN acc.seen \cup {it.productId} ELSE acc.seen
             cand == Candidate(it, now)
         IN  IF TxSkipped(it, target)
             THEN StatusLoop(items, target, now, [acc EXCEPT !.seen = seen], i + 1)
             ELSE IF ~acc.has \/ cand.expiresAt > acc.newest.expiresAt
             THEN StatusLoop(items, target, now,
                             [has |-> TRUE, newest |-> cand, sel |-> i, seen |-> seen], i + 1)
             ELSE StatusLoop(items, target, now, [acc EXCEPT !.seen = seen], i + 1)

\* decideActiveFromStatuses(statusResponse, targetProductId) at clock value now.
\* withSeen: the variant collects seenProducts ("basic" does not).
decideActiveFromStatuses(data, target, now, withSeen) ==
    LET items == Flatten(data)
        acc0  == [has |-> FALSE, newest |-> [productId |-> "", expiresAt |-> 0, active |-> FALSE],
                  sel |-> 0, seen |-> {}]
        acc   == StatusLoop(items, target, now, acc0, 1)
        dbg   == IF withSeen THEN [Debug EXCEPT !.seenProducts = acc.seen] ELSE NoDebug
    IN  IF \E i \in 1..Len(items) : items[i].dec = "throw"
        THEN DecisionThrew
        ELSE IF ~acc.has
        THEN Decision(FALSE, "", 0, "NO_TRANSACTIONS", dbg, 0)
        ELSE Decision(acc.newest.active, acc.newest.productId, acc.newest.expiresAt,
                      "-", dbg, acc.sel)

\* Number(x.expires_date_ms || x.expires_date || x.purchase_date_ms || 0)
\* (expires_date, the formatted twin of expires_date_ms, is not modelled)
SortKey(x) == IF x.expires_date_ms # 0 THEN x.expires_date_ms ELSE x.purchase_date_ms

\* filtered.reduce((a, b) => (eb > ea) ? b : a), over the positions idx of the
\* records that passed the product filter; a is the position kept so far
RECURSIVE ReduceNewest(_, _, _, _)
ReduceNewest(items, idx, a, k) ==
    IF k > Len(idx) THEN a
    ELSE ReduceNewest(items, idx,
                      IF SortKey(items[idx[k]]) > SortKey(items[a]) THEN idx[k] ELSE a, k + 1)

\* positions of items, in order, that satisfy the product filter
RECURSIVE FilterPositions(_, _, _)
FilterPositions(items, target, i) ==
    IF i > Len(items) THEN <<>>
    ELSE (IF target = "" \/ items[i].product_id = target THEN <<i>> ELSE <<>>)
         \o FilterPositions(items, target, i + 1)

\* json.pending_renewal_info.find(r => r.product_id === latest.product_id ||
\*                                     r.auto_renew_product_id === latest.product_id)
RECURSIVE FindRenewal(_, _, _)
FindRenewal(pri, pid, i) ==
    IF i > Len(pri) THEN 0
    ELSE IF pri[i].product_id = pid \/ pri[i].auto_renew_product_id = pid THEN i
    ELSE FindRenewal(pri, pid, i + 1)

\* const cancelled = Boolean(latest.cancellation_date_ms || latest.cancellation_date)
EntryCancelled(x) == x.cancellation_date_ms # 0

\* the array the receipt-only decision works on
ReceiptItems(json) ==
    IF json.hasLri /\ Len(json.latest_receipt_info) > 0 THEN json.latest_receipt_info
    ELSE IF json.hasReceipt /\ json.hasInApp THEN json.in_app
    ELSE <<>>

\* decideActiveFromVerifyReceipt(json, targetProductId) at clock value now
decideActiveFromVerifyReceipt(json, target, now) ==
    LET items == ReceiptItems(json)
        seen  == {items[i].product_id : i \in 1..Len(items)} \ {""}
        idx   == FilterPositions(items, target, 1)
    IN  IF Len(items) = 0
        THEN Decision(FALSE, "", 0, "NO_TRANSACTIONS", Debug, 0)
        ELSE IF Len(idx) = 0
        THEN Decision(FALSE, "", 0, "PRODUCT_NOT_FOUND",
                      [Debug EXCEPT !.seenProducts = seen], 0)
        ELSE LET sel       == ReduceNewest(items, idx, idx[1], 2)
                 latest    == items[sel]
                 expiresMs == latest.expires_date_ms
                 rn        == IF json.hasPri
                              THEN FindRenewal(json.pending_renewal_info, latest.product_id, 1)
                              ELSE 0
                 graceMs   == IF rn # 0
                              THEN json.pending_renewal_info[rn].grace_period_expires_date_ms
                              ELSE 0
                 active    == ~EntryCancelled(latest) /\ (expiresMs > now \/ graceMs > now)
             IN  Decision(active, latest.product_id, expiresMs, "-",
                          [Debug EXCEPT !.seenProducts = seen, !.graceMs = graceMs], sel)

-----------------------------------------------------------------------------
(* What the vendor can send to one request of the handler *)

\* purchase entries of a legacy payload (one per array in the handler model)
HEntries ==
    {Entry(pid, exp, 0, canc, otid) :
        pid \in Products, exp \in Times, canc \in {0, 1}, otid \in {"", "t1"}}

HArrays == {<<>>} \cup {<<e>> : e \in HEntries}

HRenewals == {<<>>} \cup {<<Renewal(pid, "", MaxT)>> : pid \in Products}

\* objects with a numeric status; redirect codes carry no purchase data
HJsons ==
    {Json(st, TRUE, lri, TRUE, TRUE, inApp, TRUE, pri) :
        st \in {"0", "21004"}, lri \in HArrays,
        inApp \in {<<>>, <<Entry("p1", 0, 0, 0, "t2")>>}, pri \in HRenewals}
    \cup {Json(st, TRUE, <<>>, TRUE, TRUE, inApp, TRUE, pri) :
        st \in {"0", "21004"}, inApp \in HArrays, pri \in HRenewals}
    \cup {Json(st, hasLri, <<>>, hasReceipt, FALSE, <<>>, FALSE, <<>>) :
        st \in LegacyStatuses, hasLri \in BOOLEAN, hasReceipt \in BOOLEAN}

HReplies == {JsonReply(j) : j \in HJsons} \cup {NonJsonReply, NetErrReply}

\* what the reply looks like in the call log
ReplyOutcome(reply) == IF reply.kind = "json" THEN reply.json.status ELSE reply.kind

HItems ==
    {Item("ok", pid, exp, rev, canc, grace) :
        pid \in Products, exp \in Times, rev \in {0, 1}, canc \in {0, 1}, grace \in {0, MaxT}}
    \cup {Item("undef", "", 0, 0, 0, grace) : grace \in {0, MaxT}}
    \cup {Item("throw", "", 0, 0, 0, 0)}

\* statusResponse.data of a successful lookup
HStatusResponses == {<<>>, << <<>> >>} \cup {<< <<it>> >> : it \in HItems}

\* httpStatusCode of the error getAllSubscriptionStatuses throws (0: untagged)
LookupErrors == {401, 500, 0}

\* With several requests in flight the vendor's repertoire is one payload per
\* kind of outcome, which keeps the interleavings of the requests enumerable.
CJsons ==
    {Json("0", TRUE, <<Entry("p1", MaxT, 0, 0, "t1")>>, TRUE, TRUE, <<>>, TRUE, <<>>),
     Json("0", TRUE, <<>>, TRUE, TRUE, <<>>, TRUE, <<>>),
     Json("21007", FALSE, <<>>, FALSE, FALSE, <<>>, FALSE, <<>>),
     Json("21004", FALSE, <<>>, FALSE, FALSE, <<>>, FALSE, <<>>)}

CReplies == {JsonReply(j) : j \in CJsons} \cup {NonJsonReply, NetErrReply}

CStatusResponses ==
    {<<>>,
     << <<Item("ok", "p1", MaxT, 0, 0, 0)>> >>,
     << <<Item("ok", "p2", 1, 0, 0, 0)>> >>,
     << <<Item("throw", "", 0, 0, 0, 0)>> >>}

\* more than one request is being served
Concurrent == Cardinality(DOMAIN pc) > 1

\* Payloads for the resolver on its own: every shape of latest_receipt_info and
\* receipt.in_app the extraction distinguishes.
RLatest ==
    {<<>>,
     <<Entry("p1", 1, 0, 0, "t1")>>,
     <<Entry("p1", 1, 0, 0, "")>>,
     <<Entry("p1", 1, 0, 0, "t1"), Entry("p1", 2, 0, 0, "t2")>>,
     <<Entry("p1", 2, 0, 0, "t1"), Entry("p1", 1, 0, 0, "t2")>>,
     <<Entry("p1", 1, 0, 0, "t1"), Entry("p1", 1, 0, 0, "t2")>>,
     <<Entry("p1", 0, 0, 0, "t1"), Entry("p1", 0, 0, 0, "t2")>>,
     <<Entry("p1", 2, 0, 0, ""), Entry("p1", 1, 0, 0, "t2")>>}

RInApp == {<<>>, <<Entry("p1", 0, 0, 0, "t3")>>, <<Entry("p1", 0, 0, 0, "")>>}

RJsons ==
    {Json("0", TRUE, lri, TRUE, TRUE, inApp, FALSE, <<>>) : lri \in RLatest, inApp \in RInApp}
    \cup {Json("0", FALSE, <<>>, TRUE, TRUE, inApp, FALSE, <<>>) : inApp \in RInApp}
    \cup {Json("0", hasLri, <<>>, FALSE, FALSE, <<>>, FALSE, <<>>) : hasLri \in BOOLEAN}
    \cup {Json(st, TRUE, <<Entry("p1", 1, 0, 0, "t1")>>, TRUE, TRUE,
                <<Entry("p1", 0, 0, 0, "t3")>>, FALSE, <<>>) : st \in {"21004", "21007", "21008"}}
    \cup {SentinelJson(st) : st \in {"21004", "21007", "21008"}}

RReplies == {JsonReply(j) : j \in RJsons} \cup {NonJsonReply, NetErrReply}

\* the answers of the two endpoints are fixed in dIn
Scripted == dIn.fn = "resolve"

\* what the legacy endpoint url can answer to a POST
Replies(url) ==
    IF Scripted THEN {dIn.vendor[url]}
    ELSE IF Concurrent THEN CReplies
    ELSE HReplies

\* the App Store Server API's answer for the identifier and the clock are
\* fixed in dIn
LookupScripted == dIn.fn = "lookup"

\* what a successful lookup can return
StatusResponses ==
    IF LookupScripted THEN (IF dIn.threw THEN {} ELSE {dIn.data})
    ELSE IF Concurrent THEN CStatusResponses
    ELSE HStatusResponses

\* the httpStatusCode a failing lookup can carry
LookupThrows ==
    IF LookupScripted THEN (IF dIn.threw THEN {dIn.code} ELSE {})
    ELSE LookupErrors

\* Date.now() when the decision runs
Nows == IF LookupScripted THEN {dIn.now} ELSE Clock

-----------------------------------------------------------------------------
(* Outbound calls and responses *)

\* late: the call has been pending for longer than the timeout the configuration
\* would bound it by (no timer of the server watches the call)
\* timer: the setTimeout that guards the call ("none": the call has no timer)
Call(kind, url, key) ==
    [kind |-> kind, url |-> url, key |-> key, outcome |-> "pending", code |-> 0,
     late |-> FALSE, timer |-> "none"]

\* a POST to a legacy endpoint; postJsonWithTimeout (part_001) arms a timer
\* before it calls fetch
LegacyCall(variant, url) ==
    [Call("legacy", url, "") EXCEPT !.timer = IF variant = "receiptOnly" THEN "armed" ELSE "none"]

\* the log with the outcome of its last (the only pending) call filled in:
\* the await on that call has resumed
SettleMutant(log, outcome) == log

\* (finally { clearTimeout(t) } where the call has a timer)
Settle(log, outcome) ==
    [log EXCEPT ![Len(log)].outcome = outcome,
                ![Len(log)].timer = IF @ = "armed" THEN "cleared" ELSE @]

\* the last call threw an error tagged with httpStatusCode code
SettleThrow(log, code) == [Settle(log, "threw") EXCEPT ![Len(log)].code = code]

InFlight(log) == {i \in 1..Len(log) : log[i].outcome = "pending"}

LegacyCalls(log) == {i \in 1..Len(log) : log[i].kind = "legacy"}

LookupCalls(log) == {i \in 1..Len(log) : log[i].kind = "lookup"}

\* an HTTP response: active is "true", "false" or "absent" (no such field)
Response(status, active, reason, pid, exp, dbg) ==
    [status |-> status, active |-> active, reason |-> reason, productId |-> pid,
     expiresAt |-> exp, debug |-> dbg]

NoResponse == Response(0, "absent", "-", "", 0, NoDebug)

\* res.status(400).json({ active: false, reason: "MISSING_RECEIPT" });
\* "basic" sends { error: "Missing receipt_b64" }
MissingReceiptResponse(variant) ==
    IF variant = "basic"
    THEN Response(400, "absent", "-", "", 0, NoDebug)
    ELSE Response(400, "false", "MISSING_RECEIPT", "", 0, NoDebug)

ConfigErrorResponse == Response(500, "false", "CONFIG_ERROR", "", 0, NoDebug)

\* the outer catch of the handler
ServerErrorResponse == Response(500, "false", "SERVER_ERROR", "", 0, NoDebug)

\* the response of the branch if (!info?.originalTxId)
NoIdResponse(variant, i, rc) ==
    LET dbg == CASE variant = "basic" -> NoDebug
                 [] variant = "oid" ->
                        [(IF i.debug.present THEN i.debug ELSE Debug)
                            EXCEPT !.receiptLen = IF rc.type = "string" THEN rc.len ELSE -1]
                 [] OTHER -> i.debug
    IN  Response(200, "false", "NO_ORIGINAL_TRANSACTION_ID", "", 0, dbg)

\* receiptOnly: the branch if (json.status !== 0)
VerifyReceiptErrorResponse(json) ==
    Response(200, "false", "VERIFY_RECEIPT_ERROR", "", 0,
             [Debug EXCEPT !.status = json.status,
                           !.hasLatest = BoolStr(json.hasLri),
                           !.hasReceipt = BoolStr(json.hasReceipt)])

\* the HTTP status of the inner catch around getAllSubscriptionStatuses
LookupErrorStatus(variant, code) == IF variant = "diag" /\ code = 401 THEN 401 ELSE 500

\* the response of the inner catch; "basic" has no inner catch
LookupErrorResponse(variant, code) ==
    IF variant = "basic"
    THEN ServerErrorResponse
    ELSE Response(LookupErrorStatus(variant, code), "false", "APPLE_SERVER_API_ERROR", "", 0,
                  [Debug EXCEPT !.httpStatusCode = code, !.keyId = "APPLE_KEY_ID"])

\* verify_by_oid: res.status(400).json({ active: false,
\*                                        reason: "MISSING_ORIGINAL_TRANSACTION_ID" })
MissingOidResponse == Response(400, "false", "MISSING_ORIGINAL_TRANSACTION_ID", "", 0, NoDebug)

\* verify_by_oid: the response of the inner catch; its debug holds
\* httpStatusCode, apiError and env, but neither keyId nor issuerId
OidLookupErrorResponse(code) ==
    Response(500, "false", "APPLE_SERVER_API_ERROR", "", 0,
             [Debug EXCEPT !.httpStatusCode = code])

\* res.json({ active: d.active, productId: d.productId || product_id || null,
\*            expiresAt: d.expiresAt || null, debug: d.debug || null })
DecisionResponse(variant, d, product_id) ==
    IF d.threw THEN ServerErrorResponse
    ELSE IF variant = "receiptOnly"
    THEN Response(200, BoolStr(d.active), d.reason, d.productId, d.expiresAt, d.debug)
    ELSE Response(200, BoolStr(d.active), "-",
                  IF d.productId # "" THEN d.productId ELSE product_id,
                  d.expiresAt, d.debug)

-----------------------------------------------------------------------------
(* POST /verify_apple_receipt: one handler run per request *)

Reqs == {1}

Configs == [variant : Variants, nodeEnv : {"production", "sandbox"}, hasSecret : BOOLEAN]

Bodies == [receipt_b64 : Receipts, product_id : Products \cup {""}]

HandlerInit(R) ==
    /\ cfg \in Configs
    /\ req \in [R -> Bodies]
    /\ pc = [r \in R |-> "START"]
    /\ pos = [r \in R |-> "none"]
    /\ net = [r \in R |-> <<>>]
    /\ info = [r \in R |-> NoInfo]
    /\ out = [r \in R |-> NoResponse]
    /\ resp = [r \in R |-> <<>>]

DecideIdle ==
    /\ dIn = [fn |-> "none", data |-> <<>>, json |-> SentinelJson("0"), target |-> "", now |-> 1]
    /\ dOut = [done |-> FALSE, d |-> NoDecision]

Init == HandlerInit(Reqs) /\ DecideIdle

\* The handler up to its first await: the missing-receipt check (and, in
\* receiptOnly, configCheck), then the resolver's validation and first POST.
Start(r) ==
    /\ pc[r] = "START"
    /\ LET rc == req[r].receipt_b64
           v  == cfg.variant
       IN  IF ~Truthy(rc)
           THEN /\ resp' = [resp EXCEPT ![r] = Append(@, MissingReceiptResponse(v))]
                /\ pc' = [pc EXCEPT ![r] = "RESPONDED"]
                /\ UNCHANGED <<pos, net, info>>
           ELSE IF v = "receiptOnly" /\ ~cfg.hasSecret
           THEN /\ resp' = [resp EXCEPT ![r] = Append(@, ConfigErrorResponse)]
                /\ pc' = [pc EXCEPT ![r] = "RESPONDED"]
                /\ UNCHANGED <<pos, net, info>>
           ELSE IF ValidatesInput(v) /\ Malformed(rc)
           THEN /\ info' = [info EXCEPT ![r] = MalformedInfo]
                /\ pos' = [pos EXCEPT ![r] = "returned"]
                /\ pc' = [pc EXCEPT ![r] = "RESOLVING_ID"]
                /\ UNCHANGED <<net, resp>>
           ELSE /\ net' = [net EXCEPT ![r] = Append(@, LegacyCall(v, startUrl(cfg.nodeEnv)))]
                /\ pos' = [pos EXCEPT ![r] = "first"]
                /\ pc' = [pc EXCEPT ![r] = "RESOLVING_ID"]
                /\ UNCHANGED <<info, resp>>
    /\ UNCHANGED <<cfg, req, out, dvars>>

\* The vendor answers the legacy POST in flight; the code after the await runs
\* to the next await (a redirect retry) or to the end of the resolver. In
\* receiptOnly the handler itself holds this code and goes on to its decision.
LegacyReply(r) ==
    /\ pc[r] = "RESOLVING_ID"
    /\ pos[r] \in {"first", "sandboxRetry", "prodRetry"}
    /\ \E reply \in Replies(net[r][Len(net[r])].url), now \in Clock :
         LET v    == cfg.variant
             res  == postVerifyReceipt(v, reply)
             log  == Settle(net[r], ReplyOutcome(reply))
             hop  == IF res.threw THEN "done" ELSE RedirectHop(v, pos[r], res.json.status)
         IN  IF hop # "done"
             THEN /\ net' = [net EXCEPT ![r] = Append(log, LegacyCall(v, hop))]
                  /\ pos' = [pos EXCEPT ![r] = HopPos(hop)]
                  /\ UNCHANGED <<pc, info, out>>
             ELSE IF v = "receiptOnly"
             THEN /\ net' = [net EXCEPT ![r] = log]
                  /\ pos' = [pos EXCEPT ![r] = "returned"]
                  /\ IF res.json.status # "0"
                     THEN /\ pc' = [pc EXCEPT ![r] = "FAILED_NO_ID"]
                          /\ out' = [out EXCEPT ![r] = VerifyReceiptErrorResponse(res.json)]
                     ELSE /\ pc' = [pc EXCEPT ![r] = "DECIDING"]
                          /\ out' = [out EXCEPT ![r] =
                                DecisionResponse(v,
                                    decideActiveFromVerifyReceipt(res.json, req[r].product_id, now),
                                    req[r].product_id)]
                  /\ UNCHANGED info
             ELSE /\ net' = [net EXCEPT ![r] = log]
                  /\ pos' = [pos EXCEPT ![r] = "returned"]
                  /\ info' = [info EXCEPT ![r] =
                                IF res.threw THEN ResolverOnThrow(v) ELSE Extract(v, res.json)]
                  /\ UNCHANGED <<pc, out>>
    /\ UNCHANGED <<cfg, req, resp, dvars>>

\* The resolver has returned (or thrown): the handler resumes after
\* await getOriginalTransactionIdFromReceipt(receipt_b64).
ResolverReturn(r) ==
    /\ pc[r] = "RESOLVING_ID"
    /\ pos[r] = "returned"
    /\ LET v == cfg.variant
           i == info[r]
       IN  IF i.threw
           THEN /\ pc' = [pc EXCEPT ![r] = "CAUGHT"]
                /\ out' = [out EXCEPT ![r] = ServerErrorResponse]
                /\ UNCHANGED net
           ELSE IF HasNoId(v, i)
           THEN /\ pc' = [pc EXCEPT ![r] = "FAILED_NO_ID"]
                /\ out' = [out EXCEPT ![r] = NoIdResponse(v, i, req[r].receipt_b64)]
                /\ UNCHANGED net
           ELSE /\ pc' = [pc EXCEPT ![r] = "FETCHING_STATUS"]
                /\ net' = [net EXCEPT ![r] = Append(@, Call("lookup", "api", LookupKey(v, i)))]
                /\ UNCHANGED out
    /\ UNCHANGED <<cfg, req, pos, info, resp, dvars>>

\* getAllSubscriptionStatuses returns: the handler decides. The call is logged
\* as "undecodable" when the payload holds a signed blob the decoder rejects.
LookupReturn(r) ==
    /\ pc[r] = "FETCHING_STATUS"
    /\ \E data \in StatusResponses, now \in Nows :
         LET v == cfg.variant
             d == decideActiveFromStatuses(data, req[r].product_id, now, v # "basic")
         IN  /\ out' = [out EXCEPT ![r] = DecisionResponse(v, d, req[r].product_id)]
             /\ pc' = [pc EXCEPT ![r] = "DECIDING"]
             /\ net' = [net EXCEPT ![r] = Settle(@, IF d.threw THEN "undecodable" ELSE "ok")]
    /\ UNCHANGED <<cfg, req, pos, info, resp, dvars>>

\* getAllSubscriptionStatuses throws an error tagged with httpStatusCode code.
LookupThrow(r) ==
    /\ pc[r] = "FETCHING_STATUS"
    /\ \E code \in LookupThrows :
         /\ out' = [out EXCEPT ![r] = LookupErrorResponse(cfg.variant, code)]
         /\ net' = [net EXCEPT ![r] = SettleThrow(@, code)]
    /\ pc' = [pc EXCEPT ![r] = IF cfg.variant = "basic" THEN "CAUGHT" ELSE "FAILED_UPSTREAM"]
    /\ UNCHANGED <<cfg, req, pos, info, resp, dvars>>

\* Time passes while getAllSubscriptionStatuses is pending: the call has now
\* been in flight for longer than the timeout. The await has no timer, no
\* AbortController and no race against a deadline, so nothing of the handler
\* runs; the call can still return or throw later, or never.
LookupOverdue(r) ==
    /\ pc[r] = "FETCHING_STATUS"
    /\ net[r][Len(net[r])].outcome = "pending"
    /\ ~net[r][Len(net[r])].late
    /\ net' = [net EXCEPT ![r] = [@ EXCEPT ![Len(@)].late = TRUE]]
    /\ UNCHANGED <<cfg, req, pc, pos, info, out, resp, dvars>>

\* The timeout of a legacy POST elapses while the POST is pending. In part_001
\* the timer fires: controller.abort() makes fetch reject, postJsonWithTimeout
\* returns { status: "NETWORK_ERROR" } and clears the timer, and the handler
\* answers VERIFY_RECEIPT_ERROR. The other variants call fetch without a signal
\* and without a timer: nothing of them runs and the POST stays pending.
LegacyOverdue(r) ==
    /\ pc[r] = "RESOLVING_ID"
    /\ pos[r] \in {"first", "sandboxRetry", "prodRetry"}
    /\ ~net[r][Len(net[r])].late
    /\ LET log == [net[r] EXCEPT ![Len(net[r])].late = TRUE]
       IN  IF log[Len(log)].timer = "armed"
           THEN /\ net' = [net EXCEPT ![r] = Settle(log, "neterr")]
                /\ pos' = [pos EXCEPT ![r] = "returned"]
                /\ pc' = [pc EXCEPT ![r] = "FAILED_NO_ID"]
                /\ out' = [out EXCEPT ![r] =
                              VerifyReceiptErrorResponse(SentinelJson("NETWORK_ERROR"))]
           ELSE /\ net' = [net EXCEPT ![r] = log]
                /\ UNCHANGED <<pos, pc, out>>
    /\ UNCHANGED <<cfg, req, info, resp, dvars>>

\* the response kept in a module-level variable that every request writes
RespondShared(r) ==
    /\ pc[r] \in {"FAILED_NO_ID", "FAILED_UPSTREAM", "DECIDING", "CAUGHT"}
    /\ \E q \in DOMAIN pc :
          /\ out[q] # NoResponse
          /\ resp' = [resp EXCEPT ![r] = Append(@, out[q])]
    /\ pc' = [pc EXCEPT ![r] = "RESPONDED"]
    /\ UNCHANGED <<cfg, req, pos, net, info, out, dvars>>

\* a response sent without returning: the handler can send again
RespondMutant(r) ==
    /\ pc[r] \in {"FAILED_NO_ID", "FAILED_UPSTREAM", "DECIDING", "CAUGHT"}
    /\ Len(resp[r]) < 2
    /\ resp' = [resp EXCEPT ![r] = Append(@, out[r])]
    /\ UNCHANGED <<cfg, req, pc, pos, net, info, out, dvars>>

\* return res.status(...).json(...)
Respond(r) ==
    /\ pc[r] \in {"FAILED_NO_ID", "FAILED_UPSTREAM", "DECIDING", "CAUGHT"}
    /\ resp' = [resp EXCEPT ![r] = Append(@, out[r])]
    /\ pc' = [pc EXCEPT ![r] = "RESPONDED"]
    /\ UNCHANGED <<cfg, req, pos, net, info, out, dvars>>

Next ==
    \E r \in DOMAIN pc :
        \/ Start(r)
        \/ LegacyReply(r)
        \/ ResolverReturn(r)
        \/ LookupReturn(r)
        \/ LookupThrow(r)
        \/ LookupOverdue(r)
        \/ Respond(r)

Spec == Init /\ [][Next]_vars

\* Every step is a continuation the event loop runs or an outbound call that
\* completes: none of them is postponed forever.
HandlerStep(r) ==
    \/ Start(r)
    \/ LegacyReply(r)
    \/ ResolverReturn(r)
    \/ LookupReturn(r)
    \/ LookupThrow(r)
    \/ Respond(r)

FairSpec == Spec /\ \A r \in Reqs : WF_vars(HandlerStep(r))

\* Time passes and the continuations of the handler run, but neither the
\* legacy endpoints nor the App Store Server API need ever answer.
OwnStep(r) ==
    \/ Start(r)
    \/ LegacyOverdue(r)
    \/ ResolverReturn(r)
    \/ Respond(r)

TimeoutNext ==
    \E r \in DOMAIN pc :
        \/ Start(r)
        \/ LegacyReply(r)
        \/ ResolverReturn(r)
        \/ LookupReturn(r)
        \/ LookupThrow(r)
        \/ LookupOverdue(r)
        \/ LegacyOverdue(r)
        \/ Respond(r)

TimeoutSpec == Init /\ [][TimeoutNext]_vars /\ \A r \in Reqs : WF_vars(OwnStep(r))

-----------------------------------------------------------------------------
(* Two requests in flight at once: the event loop interleaves their steps at
   the awaits *)

ConcReqs == {1, 2}

ValidReceipt == [type |-> "string", len |-> MinReceiptLen]

ConcBodies ==
    [receipt_b64 : {ValidReceipt, [type |-> "undefined", len |-> 0]},
     product_id : {"p1", ""}]

ConcInit ==
    /\ HandlerInit(ConcReqs)
    /\ DecideIdle
    /\ cfg.hasSecret
    /\ req[1] = [receipt_b64 |-> ValidReceipt, product_id |-> "p1"]
    /\ req[2] \in ConcBodies

ConcSpec == ConcInit /\ [][Next]_vars

-----------------------------------------------------------------------------
(* POST /verify_by_oid (second variant of server.js) next to
   POST /verify_apple_receipt: request 1 posts a receipt, request 2 posts an
   original_transaction_id, and the App Store Server API holds one answer *)

OidBodies == [original_transaction_id : {"", "t1"}, product_id : {"p1", ""}]

\* the request was posted to /verify_by_oid
ByOid(r) == "original_transaction_id" \in DOMAIN req[r]

OidInit ==
    /\ cfg \in Configs
    /\ cfg.variant = "oid"
    /\ cfg.hasSecret
    /\ \E pid \in {"p1", ""}, body \in OidBodies :
          req = <<[receipt_b64 |-> ValidReceipt, product_id |-> pid], body>>
    /\ pc = <<"START", "OID_START">>
    /\ pos = [r \in ConcReqs |-> "none"]
    /\ net = [r \in ConcReqs |-> <<>>]
    /\ info = [r \in ConcReqs |-> NoInfo]
    /\ out = [r \in ConcReqs |-> NoResponse]
    /\ resp = [r \in ConcReqs |-> <<>>]
    /\ dOut = [done |-> FALSE, d |-> NoDecision]
    /\ \/ \E data \in CStatusResponses, now \in Clock :
             dIn = [fn |-> "lookup", threw |-> FALSE, data |-> data, code |-> 0, now |-> now]
       \/ \E code \in LookupErrors :
             dIn = [fn |-> "lookup", threw |-> TRUE, data |-> <<>>, code |-> code, now |-> 1]

\* a decision that ignores the product the caller asked for
OidDecideAnyProduct(data, product_id, now) == decideActiveFromStatuses(data, "", now, TRUE)

\* const d = decideActiveFromStatuses(statuses, product_id)
OidDecide(data, product_id, now) == decideActiveFromStatuses(data, product_id, now, TRUE)

\* The handler up to its await: the check of original_transaction_id, then the
\* lookup with the supplied identifier.
OidStart(r) ==
    /\ pc[r] = "OID_START"
    /\ IF req[r].original_transaction_id = ""
       THEN /\ resp' = [resp EXCEPT ![r] = Append(@, MissingOidResponse)]
            /\ pc' = [pc EXCEPT ![r] = "RESPONDED"]
            /\ UNCHANGED net
       ELSE /\ net' = [net EXCEPT ![r] =
                          Append(@, Call("lookup", "api", req[r].original_transaction_id))]
            /\ pc' = [pc EXCEPT ![r] = "OID_FETCHING"]
            /\ UNCHANGED resp
    /\ UNCHANGED <<cfg, req, pos, info, out, dvars>>

\* getAllSubscriptionStatuses returns: the handler decides
OidLookupReturn(r) ==
    /\ pc[r] = "OID_FETCHING"
    /\ \E data \in StatusResponses, now \in Nows :
         LET d == OidDecide(data, req[r].product_id, now)
         IN  /\ out' = [out EXCEPT ![r] = DecisionResponse("oid", d, req[r].product_id)]
             /\ pc' = [pc EXCEPT ![r] = "DECIDING"]
             /\ net' = [net EXCEPT ![r] = Settle(@, IF d.threw THEN "undecodable" ELSE "ok")]
    /\ UNCHANGED <<cfg, req, pos, info, resp, dvars>>

\* getAllSubscriptionStatuses throws
OidLookupThrow(r) ==
    /\ pc[r] = "OID_FETCHING"
    /\ \E code \in LookupThrows :
         /\ out' = [out EXCEPT ![r] = OidLookupErrorResponse(code)]
         /\ net' = [net EXCEPT ![r] = SettleThrow(@, code)]
    /\ pc' = [pc EXCEPT ![r] = "FAILED_UPSTREAM"]
    /\ UNCHANGED <<cfg, req, pos, info, resp, dvars>>

OidNext ==
    \E r \in DOMAIN pc :
        \/ Start(r)
        \/ LegacyReply(r)
        \/ ResolverReturn(r)
        \/ LookupReturn(r)
        \/ LookupThrow(r)
        \/ LookupOverdue(r)
        \/ Respond(r)
        \/ OidStart(r)
        \/ OidLookupReturn(r)
        \/ OidLookupThrow(r)

OidSpec == OidInit /\ [][OidNext]_vars

-----------------------------------------------------------------------------
(* The decision functions on their own *)

DItems ==
    {Item("ok", pid, exp, rev, canc, grace) :
        pid \in Products, exp \in Times, rev \in {0, 1}, canc \in {0, 1}, grace \in Times}
    \cup {Item("undef", "", 0, 0, 0, grace) : grace \in Times}
    \cup {Item("throw", "", 0, 0, 0, 0)}

\* statusResponse.data for the items g: one group (k = 0), or two groups, the
\* first holding the first k items
Grouped(g, k) ==
    IF k = 0 THEN <<g>> ELSE <<SubSeq(g, 1, k), SubSeq(g, k + 1, Len(g))>>

DEntries ==
    {Entry(pid, exp, purch, canc, "t1") :
        pid \in Products, exp \in Times, purch \in {0, MaxT}, canc \in {0, 1}}

DRenewals ==
    {<<>>}
    \cup {<<Renewal(pid, "", grace)>> : pid \in Products, grace \in {0, MaxT}}
    \cup {<<Renewal("", pid, grace)>> : pid \in Products, grace \in {0, MaxT}}

\* a status-0 payload with the purchases in latest_receipt_info (inLri) or
\* only in receipt.in_app
DJson(inLri, entries, pri) ==
    IF inLri
    THEN Json("0", TRUE, entries, TRUE, TRUE, <<>>, TRUE, pri)
    ELSE Json("0", FALSE, <<>>, TRUE, TRUE, entries, TRUE, pri)

DecideInput(fn, data, json, target, now) ==
    [fn |-> fn, data |-> data, json |-> json, target |-> target, now |-> now]

HandlerIdle ==
    /\ cfg = [variant |-> "diag", nodeEnv |-> "sandbox", hasSecret |-> TRUE]
    /\ req = <<>>
    /\ pc = <<>>
    /\ pos = <<>>
    /\ net = <<>>
    /\ info = <<>>
    /\ out = <<>>
    /\ resp = <<>>

DecideInit ==
    /\ HandlerIdle
    /\ dOut = [done |-> FALSE, d |-> NoDecision]
    /\ \E target \in Products \cup {""}, now \in Clock, n \in 0..MaxItems :
         \/ \E g \in [1..n -> DItems], k \in 0..n :
                dIn = DecideInput("statuses", Grouped(g, k), SentinelJson("0"), target, now)
         \/ /\ n = 0
            /\ dIn = DecideInput("statuses", <<>>, SentinelJson("0"), target, now)
         \/ \E entries \in [1..n -> DEntries], pri \in DRenewals, inLri \in BOOLEAN :
                dIn = DecideInput("receipt", <<>>, DJson(inLri, entries, pri), target, now)

DecideStatuses ==
    /\ dIn.fn = "statuses"
    /\ ~dOut.done
    /\ dOut' = [done |-> TRUE,
                d |-> decideActiveFromStatuses(dIn.data, dIn.target, dIn.now, TRUE)]
    /\ UNCHANGED <<dIn, hvars>>

DecideReceipt ==
    /\ dIn.fn = "receipt"
    /\ ~dOut.done
    /\ dOut' = [done |-> TRUE,
                d |-> decideActiveFromVerifyReceipt(dIn.json, dIn.target, dIn.now)]
    /\ UNCHANGED <<dIn, hvars>>

DecideNext == DecideStatuses \/ DecideReceipt

DecideSpec == DecideInit /\ [][DecideNext]_vars

-----------------------------------------------------------------------------
(* The resolver on its own: the same blob is resolved twice, by two requests in
   any interleaving, while the vendor's state does not change: each endpoint
   holds one answer for the blob *)

Endpoints == {"prod", "sandbox"}

ResolveInit ==
    /\ HandlerInit(ConcReqs)
    /\ cfg.hasSecret
    /\ req[1].product_id = ""
    /\ req[1].receipt_b64 \in {ValidReceipt, [type |-> "string", len |-> MinReceiptLen - 1]}
    /\ req[2] = req[1]
    /\ dOut = [done |-> FALSE, d |-> NoDecision]
    /\ \E vendor \in [Endpoints -> RReplies] :
          dIn = [fn |-> "resolve", vendor |-> vendor, now |-> 1]

ResolveNext == \E r \in DOMAIN pc : Start(r) \/ LegacyReply(r)

ResolveSpec == ResolveInit /\ [][ResolveNext]_vars

-----------------------------------------------------------------------------
(* Properties *)

\* the legacy calls of a log, in issue order
RECURSIVE LegacySeq(_)
LegacySeq(log) ==
    IF log = <<>> THEN <<>>
    ELSE (IF Head(log).kind = "legacy" THEN <<Head(log)>> ELSE <<>>) \o LegacySeq(Tail(log))

\* the outcome of the last legacy call ("" when none was made)
LastLegacyOutcome(log) ==
    LET L == LegacySeq(log) IN IF L = <<>> THEN "" ELSE L[Len(L)].outcome

\* the lookup of request r returned without error
LookupOk(r) == \E i \in LookupCalls(net[r]) : net[r][i].outcome = "ok"

LookupThrew(r) == \E i \in LookupCalls(net[r]) : net[r][i].outcome = "threw"

\* every response of request r, sent or about to be sent
Responses(r) ==
    {resp[r][i] : i \in 1..Len(resp[r])}
    \cup (IF pc[r] \in {"FAILED_NO_ID", "FAILED_UPSTREAM", "DECIDING", "CAUGHT"}
          THEN {out[r]} ELSE {})

\* the path on which an entitlement may be granted
GrantPath(r) ==
    /\ LastLegacyOutcome(net[r]) = "0"
    /\ cfg.variant # "receiptOnly" => info[r].originalTxId # "" /\ LookupOk(r)

\* C1: fail closed. A response carries active:true only if the last legacy
\* response had status 0 and (where the handler has a resolver and a lookup) the
\* resolver obtained an identifier and the lookup returned without error; every
\* response sent on another path carries active:false.
C1_FailClosed ==
    \A r \in DOMAIN pc :
        \A m \in Responses(r) :
            /\ m.active = "true" => GrantPath(r)
            /\ ~GrantPath(r) => m.active = "false"

\* C2: a record that carries a revocation or cancellation marker is never
\* reported as active: whenever the record a decision function selects has a
\* marker, the decision has active = false, whatever its expiry and grace period.
C2_CancelledNeverActive ==
    (dOut.done /\ ~dOut.d.threw /\ dOut.d.sel # 0) =>
        IF dIn.fn = "statuses"
        THEN LET it == Flatten(dIn.data)[dOut.d.sel]
             IN  (it.revocationDate # 0 \/ it.cancellationDate # 0) => ~dOut.d.active
        ELSE LET x == ReceiptItems(dIn.json)[dOut.d.sel]
             IN  x.cancellation_date_ms # 0 => ~dOut.d.active

C2_Witness ==
    /\ dOut.done
    /\ dIn.fn = "statuses"
    /\ dOut.d.sel = 2
    /\ Flatten(dIn.data)[2].revocationDate # 0
    /\ Flatten(dIn.data)[2].expiresDate > dIn.now
    /\ Flatten(dIn.data)[2].gracePeriodExpiresDate > dIn.now
    /\ ~dOut.d.active

Retries(L, url) == {i \in 2..Len(L) : L[i].url = url}

C4_MalformedNoNetwork ==
    \A r \in DOMAIN pc :
        (/\ cfg.variant \in LookupVariants
         /\ pc[r] # "START"
         /\ Truthy(req[r].receipt_b64)
         /\ Malformed(req[r].receipt_b64)) =>
            /\ LegacyCalls(net[r]) = {}
            /\ info[r].originalTxId = ""
            /\ info[r].debug.status = "21002"

\* C5: a request without receipt_b64 is answered with HTTP 400 and
\* {active:false, reason:"MISSING_RECEIPT"}, and makes no outbound call.
C5_MissingReceipt ==
    \A r \in DOMAIN pc :
        (pc[r] # "START" /\ ~Truthy(req[r].receipt_b64)) =>
            /\ resp[r] = <<Response(400, "false", "MISSING_RECEIPT", "", 0, NoDebug)>>
            /\ net[r] = <<>>

StageRank(p) ==
    CASE p = "START" -> 0
      [] p = "RESOLVING_ID" -> 1
      [] p \in {"FAILED_NO_ID", "FETCHING_STATUS"} -> 2
      [] p \in {"FAILED_UPSTREAM", "DECIDING", "CAUGHT"} -> 3
      [] OTHER -> 4

\* the moves of the state machine; START -> RESPONDED is the 400 of a request
\* without receipt, and each FAILED stage ends in the response
StageEdges ==
    {<<"START", "RESOLVING_ID">>, <<"START", "RESPONDED">>,
     <<"RESOLVING_ID", "FAILED_NO_ID">>, <<"RESOLVING_ID", "FETCHING_STATUS">>,
     <<"FAILED_NO_ID", "RESPONDED">>,
     <<"FETCHING_STATUS", "FAILED_UPSTREAM">>, <<"FETCHING_STATUS", "DECIDING">>,
     <<"FAILED_UPSTREAM", "RESPONDED">>, <<"DECIDING", "RESPONDED">>}

\* C7: a request only moves forward through START, RESOLVING_ID,
\* (FAILED_NO_ID | FETCHING_STATUS), (FAILED_UPSTREAM | DECIDING), RESPONDED and
\* never revisits a stage (in the handlers of server.js and part_000 along the
\* edges of the state machine exactly); when its outbound calls complete it
\* reaches RESPONDED; and it sends exactly one response: none before RESPONDED,
\* one from then on.
C7_Lifecycle ==
    /\ [][\A r \in Reqs :
            pc'[r] # pc[r] =>
                /\ StageRank(pc'[r]) > StageRank(pc[r])
                /\ cfg.variant \in ValidatingVariants => <<pc[r], pc'[r]>> \in StageEdges]_vars
    /\ [](\A r \in Reqs : Len(resp[r]) = IF pc[r] = "RESPONDED" THEN 1 ELSE 0)
    /\ \A r \in Reqs : <>(pc[r] = "RESPONDED")

C7_Witness ==
    \E r \in DOMAIN pc :
        /\ cfg.variant = "diag"
        /\ pc[r] = "RESPONDED"
        /\ LookupOk(r)
        /\ Len(resp[r]) = 1
        /\ resp[r][1].status = 200

\* C8: within one request at most one outbound call is in flight, and the
\* status fetch is issued only after the resolver has returned: every legacy
\* call precedes it and has completed.
C8_Sequential ==
    \A r \in DOMAIN pc :
        /\ Cardinality(InFlight(net[r])) <= 1
        /\ \A i \in LookupCalls(net[r]) :
              /\ pos[r] = "returned"
              /\ \A j \in LegacyCalls(net[r]) : j < i /\ net[r][j].outcome # "pending"

C8_Witness ==
    \E r \in DOMAIN pc :
        /\ Len(net[r]) = 3
        /\ net[r][2].kind = "legacy"
        /\ net[r][3].kind = "lookup"
        /\ net[r][3].outcome = "pending"

\* the resolver of request r has finished without an identifier
ResolverFailed(r) ==
    /\ pos[r] = "returned"
    /\ info[r].threw \/ info[r].originalTxId = ""

\* C9: whenever the resolver produces no identifier the request ends at
\* FAILED_NO_ID: HTTP 200, active:false, NO_ORIGINAL_TRANSACTION_ID with the
\* resolver's diagnostic, and the status lookup is never invoked; in every
\* variant that has a resolver.
C9_NoIdEndsRequest ==
    \A r \in DOMAIN pc :
        (cfg.variant \in LookupVariants /\ ResolverFailed(r)) =>
            /\ LookupCalls(net[r]) = {}
            /\ \A m \in Responses(r) :
                  /\ m.status = 200
                  /\ m.active = "false"
                  /\ m.reason = "NO_ORIGINAL_TRANSACTION_ID"
                  /\ [m.debug EXCEPT !.receiptLen = -1] = info[r].debug

\* the httpStatusCode of the error the lookup of request r threw
ThrownCode(r) ==
    LET i == CHOOSE i \in LookupCalls(net[r]) : net[r][i].outcome = "threw"
    IN  net[r][i].code

\* C10: when the lookup throws an error tagged 401 the response has status
\* 401, active:false and reason APPLE_SERVER_API_ERROR; when it throws any other
\* error the status is 500 with active:false; no decision is computed.
C10_LookupErrorStatus ==
    \A r \in DOMAIN pc :
        (cfg.variant \in ValidatingVariants /\ LookupThrew(r)) =>
            \A m \in Responses(r) :
                /\ m.status = IF ThrownCode(r) = 401 THEN 401 ELSE 500
                /\ m.active = "false"
                /\ m.reason = "APPLE_SERVER_API_ERROR"
                /\ m.productId = "" /\ m.expiresAt = 0

\* the status lookup of request r has outlasted the timeout
Overdue(r) == \E i \in LookupCalls(net[r]) : net[r][i].late

\* C11: when the status lookup does not complete within the timeout the request
\* does not hang: it is answered, with HTTP status 504 and active:false.
C11_TimeoutIs504 ==
    \A r \in Reqs :
        [](Overdue(r) =>
              <>(/\ pc[r] = "RESPONDED"
                 /\ resp[r][1].status = 504
                 /\ resp[r][1].active = "false"))

\* everything the server holds for request r
Comp(r) == <<req[r], pc[r], pos[r], net[r], info[r], out[r], resp[r]>>

\* an exception was raised in the resolver of request r: fetch rejected, the
\* body was not JSON (part_002), or reduce met an empty array
ResolverRaised(r) ==
    /\ cfg.variant # "receiptOnly"
    /\ pos[r] = "returned"
    /\ info[r].threw \/ info[r].debug.error = "error"

\* fetch rejected inside postJsonWithTimeout (part_001)
HelperRaised(r) ==
    /\ cfg.variant = "receiptOnly"
    /\ pos[r] = "returned"
    /\ LastLegacyOutcome(net[r]) = "neterr"

\* decodeTransaction threw while the decision was computed
DecodeRaised(r) == \E i \in LookupCalls(net[r]) : net[r][i].outcome = "undecodable"

ExceptionIn(r) == ResolverRaised(r) \/ HelperRaised(r) \/ LookupThrew(r) \/ DecodeRaised(r)

\* C12 as stated: an exception raised at any stage (resolver, status fetch,
\* decoding, decision) is answered with HTTP 500 {active:false, SERVER_ERROR}.
C12_AllServerError ==
    \A r \in DOMAIN pc :
        ExceptionIn(r) => \A m \in Responses(r) : m = ServerErrorResponse

\* C12 as amended: an exception raised at any stage is caught inside the
\* handler, the request is answered once with active:false, and no other
\* request in flight is touched. Which catch answers depends on the stage: an
\* exception in the resolver is caught by the resolver and answered 200
\* NO_ORIGINAL_TRANSACTION_ID with debug.error (part_001: 200
\* VERIFY_RECEIPT_ERROR with status NETWORK_ERROR); an exception of the status
\* fetch is caught by the inner catch and answered 401 or 500
\* APPLE_SERVER_API_ERROR; only an exception of decoding or decision reaches
\* the outer catch and is answered 500 SERVER_ERROR. part_002 has neither a
\* resolver catch nor an inner catch: there all three are answered 500
\* SERVER_ERROR.
C12_ExceptionsCaught ==
    /\ [](\A r \in DOMAIN pc :
            /\ ExceptionIn(r) =>
                  /\ Len(resp[r]) = IF pc[r] = "RESPONDED" THEN 1 ELSE 0
                  /\ \A m \in Responses(r) : m.active = "false"
            /\ ResolverRaised(r) =>
                  /\ LookupCalls(net[r]) = {}
                  /\ \A m \in Responses(r) :
                        IF cfg.variant = "basic"
                        THEN m = ServerErrorResponse
                        ELSE /\ m.status = 200
                             /\ m.reason = "NO_ORIGINAL_TRANSACTION_ID"
                             /\ m.debug.error = "error"
            /\ HelperRaised(r) =>
                  \A m \in Responses(r) :
                        /\ m.status = 200
                        /\ m.reason = "VERIFY_RECEIPT_ERROR"
                        /\ m.debug.status = "NETWORK_ERROR"
            /\ LookupThrew(r) =>
                  \A m \in Responses(r) :
                        IF cfg.variant = "basic"
                        THEN m = ServerErrorResponse
                        ELSE /\ m.status \in {401, 500}
                             /\ m.reason = "APPLE_SERVER_API_ERROR"
            /\ DecodeRaised(r) =>
                  \A m \in Responses(r) : m = ServerErrorResponse)
    /\ [][\A r, q \in DOMAIN pc :
            (r # q /\ ~ExceptionIn(r) /\ ExceptionIn(r)') => Comp(q)' = Comp(q)]_vars

C12_Witness ==
    /\ Concurrent
    /\ cfg.variant = "diag"
    /\ pc[1] = "RESPONDED"
    /\ ResolverRaised(1)
    /\ resp[1][1].status = 200
    /\ pc[2] = "RESPONDED"
    /\ DecodeRaised(2)
    /\ resp[2][1] = ServerErrorResponse

\* the records a decision function was given, in iteration order, and the
\* product id of each ("" when the record could not be decoded)
DRecords == IF dIn.fn = "statuses" THEN Flatten(dIn.data) ELSE ReceiptItems(dIn.json)

DProduct(x) ==
    IF dIn.fn = "statuses" THEN (IF x.dec = "ok" THEN x.productId ELSE "") ELSE x.product_id

\* positions of the records that match the target product
DMatching == {i \in 1..Len(DRecords) : dIn.target = "" \/ DProduct(DRecords[i]) = dIn.target}

\* C13: for a non-empty record set of which no record matches the target
\* product, the decision is non-active, its reason means "target not found" and
\* is not the reason of an empty record set (NO_TRANSACTIONS), and
\* debug.seenProducts holds the product ids of the records.
C13_TargetNotFound ==
    (dOut.done /\ ~dOut.d.threw /\ Len(DRecords) > 0 /\ DMatching = {}) =>
        /\ ~dOut.d.active
        /\ dOut.d.reason \notin {"-", "NO_TRANSACTIONS"}
        /\ dOut.d.debug.seenProducts = {DProduct(DRecords[i]) : i \in 1..Len(DRecords)} \ {""}

\* expiry, cancellation marker and grace period of a record given to a decision
\* function (an absent expiry counts as 0, as in Number(x || 0))
DExpiry(x) ==
    IF dIn.fn = "statuses" THEN (IF x.dec = "ok" THEN x.expiresDate ELSE 0)
    ELSE x.expires_date_ms

DCancelled(x) ==
    IF dIn.fn = "statuses"
    THEN x.dec = "ok" /\ (x.revocationDate # 0 \/ x.cancellationDate # 0)
    ELSE x.cancellation_date_ms # 0

DGrace(x) ==
    IF dIn.fn = "statuses" THEN x.gracePeriodExpiresDate
    ELSE LET pri == dIn.json.pending_renewal_info
             rn  == IF dIn.json.hasPri THEN FindRenewal(pri, x.product_id, 1) ELSE 0
         IN  IF rn = 0 THEN 0 ELSE pri[rn].grace_period_expires_date_ms

\* positions of the matching records that have the greatest expiry
DTop == {i \in DMatching : \A j \in DMatching : DExpiry(DRecords[j]) <= DExpiry(DRecords[i])}

\* C14: when two or more matching records have the identical greatest expiry,
\* the record selected is the first of them in iteration order.
C14_FirstWinsTies ==
    (dOut.done /\ ~dOut.d.threw /\ Cardinality(DTop) >= 2) =>
        /\ dOut.d.sel \in DTop
        /\ \A i \in DTop : dOut.d.sel <= i

\* C15: for a non-empty set of matching records the decision reports exactly
\* one record, one with the greatest expiry among the matching records, and
\* its productId, expiresAt and active flag are those of that record alone.
C15_NewestByExpiry ==
    (dOut.done /\ ~dOut.d.threw /\ DMatching # {}) =>
        /\ dOut.d.sel \in DTop
        /\ LET x == DRecords[dOut.d.sel]
           IN  /\ dOut.d.productId = DProduct(x)
               /\ dOut.d.expiresAt = DExpiry(x)
               /\ dOut.d.active = (~DCancelled(x) /\ (DExpiry(x) > dIn.now \/ DGrace(x) > dIn.now))

\* the resolution of request r has ended (the resolver returned or threw; in
\* part_001 the handler has left its verifyReceipt calls behind)
Resolved(r) == pos[r] = "returned"

\* the state one resolution works on
ResolverComp(r) == <<pos[r], net[r], info[r]>>

\* C16: the resolver is idempotent and deterministic. Two resolutions of the
\* same blob under the same configuration and the same vendor answers make the
\* same POSTs, get the same answers and yield the same identifier or the same
\* failure, in whatever order their steps run; a step of one resolution changes
\* neither the configuration nor anything of the other resolution.
C16_Idempotent ==
    /\ [](\A r, q \in DOMAIN pc :
            (Resolved(r) /\ Resolved(q)) => info[r] = info[q] /\ net[r] = net[q])
    /\ [][/\ cfg' = cfg
          /\ \A r, q \in DOMAIN pc :
                (r # q /\ ResolverComp(r)' # ResolverComp(r)) =>
                    ResolverComp(q)' = ResolverComp(q)]_vars

C16_Witness ==
    /\ Scripted
    /\ cfg.variant = "diag"
    /\ cfg.nodeEnv = "production"
    /\ Resolved(1) /\ Resolved(2)
    /\ Len(net[1]) = 2 /\ Len(net[2]) = 2
    /\ info[1].originalTxId = "t2"
    /\ info[2].originalTxId = "t2"

\* the answers the endpoint may have given to the last legacy call of request
\* r, as far as the call log tells
FinalReplies(r) ==
    LET L == LegacySeq(net[r])
    IN  {reply \in Replies(L[Len(L)].url) : ReplyOutcome(reply) = L[Len(L)].outcome}

\* what the resolver returns when it runs alone on the blob of request r and
\* gets the answers logged for r
SoloInfos(r) ==
    IF LegacySeq(net[r]) = <<>> THEN {MalformedInfo}
    ELSE {LET res == postVerifyReceipt(cfg.variant, reply)
          IN  IF res.threw THEN ResolverOnThrow(cfg.variant) ELSE Extract(cfg.variant, res.json) :
             reply \in FinalReplies(r)}

\* the payloads a lookup logged with this outcome may have returned
SoloData(outcome) ==
    {data \in StatusResponses :
        (outcome = "undecodable") = (\E i \in 1..Len(Flatten(data)) : Flatten(data)[i].dec = "throw")}

\* the responses request r produces when it is the only request and gets the
\* answers logged for its own calls
SoloResponses(r) ==
    LET v   == cfg.variant
        pid == req[r].product_id
        rc  == req[r].receipt_b64
    IN  IF ~Truthy(rc) THEN {MissingReceiptResponse(v)}
        ELSE IF v = "receiptOnly" /\ ~cfg.hasSecret THEN {ConfigErrorResponse}
        ELSE IF v = "receiptOnly"
        THEN {LET j == postVerifyReceipt(v, reply).json
              IN  IF j.status # "0" THEN VerifyReceiptErrorResponse(j)
                  ELSE DecisionResponse(v, decideActiveFromVerifyReceipt(j, pid, now), pid) :
                 reply \in FinalReplies(r), now \in Clock}
        ELSE UNION {
               IF i.threw THEN {ServerErrorResponse}
               ELSE IF HasNoId(v, i) THEN {NoIdResponse(v, i, rc)}
               ELSE IF LookupThrew(r) THEN {LookupErrorResponse(v, ThrownCode(r))}
               ELSE {DecisionResponse(v, decideActiveFromStatuses(data, pid, now, v # "basic"), pid) :
                        data \in SoloData(net[r][Len(net[r])].outcome), now \in Clock} :
               i \in SoloInfos(r)}

\* C17: concurrent requests are independent. In every interleaving of the
\* steps of two requests each request's response is one it produces when run
\* alone on its own body against the answers its own calls got; every step
\* changes the state of one request only, and the configuration never changes.
C17_Independent ==
    /\ [](\A r \in DOMAIN pc : \A m \in Responses(r) : m \in SoloResponses(r))
    /\ [][/\ cfg' = cfg
          /\ \A r, q \in DOMAIN pc : (r # q /\ Comp(r)' # Comp(r)) => Comp(q)' = Comp(q)]_vars

C17_Witness ==
    /\ Concurrent
    /\ cfg.variant = "diag"
    /\ pc[1] = "RESPONDED"
    /\ resp[1][1].active = "true"
    /\ resp[1][1].productId = "p1"
    /\ pc[2] = "FETCHING_STATUS"
    /\ net[2][Len(net[2])].outcome = "pending"
    /\ req[2].product_id = ""

RedirectCodes == {"21007", "21008"}

\* C18: the resolver terminates whatever the endpoints answer. It issues at
\* most three POSTs (the first and at most one hop per direction), it is never
\* left without a pending POST before it has returned, so the answer to its last
\* POST makes it return, and a redirect code in the answer to its last POST is
\* reported as a failure with that code and not followed.
C18_BoundedPosts ==
    \A r \in DOMAIN pc :
        LET L == LegacySeq(net[r])
        IN  /\ Len(L) <= 3
            /\ Cardinality(Retries(L, "sandbox")) <= 1
            /\ Cardinality(Retries(L, "prod")) <= 1
            /\ pc[r] # "START" => (Resolved(r) <=> InFlight(net[r]) = {})
            /\ (Resolved(r) /\ LastLegacyOutcome(net[r]) \in RedirectCodes) =>
                  IF cfg.variant = "receiptOnly"
                  THEN /\ out[r].active = "false"
                       /\ out[r].reason = "VERIFY_RECEIPT_ERROR"
                       /\ out[r].debug.status = LastLegacyOutcome(net[r])
                  ELSE /\ info[r].originalTxId = ""
                       /\ info[r].debug.status = LastLegacyOutcome(net[r])

\* both endpoints answer with redirect codes whenever asked
C18_Witness ==
    \E r \in DOMAIN pc :
        /\ Scripted
        /\ dIn.vendor["prod"].json.status = "21007"
        /\ dIn.vendor["sandbox"].json.status = "21008"
        /\ cfg.variant = "diag"
        /\ Len(net[r]) = 3
        /\ Resolved(r)
        /\ info[r].debug.status = "21007"

\* the payload the resolver of request r was left with: what its helper made of
\* the answer to its last POST (scripted vendor)
FinalJson(r) ==
    LET L == LegacySeq(net[r])
    IN  postVerifyReceipt(cfg.variant, dIn.vendor[L[Len(L)].url]).json

\* the resolver of request r returned after a last POST that was answered
Answered(r) ==
    /\ Scripted
    /\ Resolved(r)
    /\ LegacySeq(net[r]) # <<>>
    /\ LastLegacyOutcome(net[r]) # "neterr"

\* C19: whenever the final legacy response has a status other than 0 (a vendor
\* error code, NON_JSON, an unfollowed redirect code) the resolver returns
\* originalTxId = null together with that status code and the hasLatest and
\* hasReceipt flags, even when the payload holds entries with an
\* original_transaction_id (resolvers of server.js and part_000).
C19_NonZeroStatus ==
    \A r \in DOMAIN pc :
        (Answered(r) /\ cfg.variant \in ValidatingVariants /\ FinalJson(r).status # "0") =>
            /\ info[r].originalTxId = ""
            /\ info[r].debug.status = FinalJson(r).status
            /\ info[r].debug.hasLatest = BoolStr(FinalJson(r).hasLri)
            /\ info[r].debug.hasReceipt = BoolStr(FinalJson(r).hasReceipt)

\* C20: on a status-0 response the resolver returns the
\* original_transaction_id of an entry of latest_receipt_info with the greatest
\* expires_date_ms; the first entry of receipt.in_app is used if and only if
\* latest_receipt_info is empty or absent; when neither yields an identifier
\* the result is originalTxId = null with debug.status 0 and a note, not a
\* diagnostic made from an exception (resolvers of server.js and part_000).
C20_Extraction ==
    \A r \in DOMAIN pc :
        (Answered(r) /\ cfg.variant \in ValidatingVariants /\ FinalJson(r).status = "0") =>
            LET j     == FinalJson(r)
                lri   == IF j.hasLri THEN j.latest_receipt_info ELSE <<>>
                inApp == IF j.hasReceipt /\ j.hasInApp THEN j.in_app ELSE <<>>
                top   == {i \in 1..Len(lri) :
                            \A k \in 1..Len(lri) : lri[k].expires_date_ms <= lri[i].expires_date_ms}
                ids   == IF Len(lri) > 0 THEN {lri[i].original_transaction_id : i \in top}
                         ELSE IF Len(inApp) > 0 THEN {inApp[1].original_transaction_id}
                         ELSE {""}
            IN  /\ info[r].originalTxId \in ids
                /\ info[r].originalTxId = "" =>
                      /\ info[r].debug.status = "0"
                      /\ info[r].debug.note = "no-id"
                      /\ info[r].debug.error = "-"

\* the diagnostic of the failure request r ended its resolution with: the
\* resolver's debug, or in part_001 the debug of the handler's response
FailureDebug(r) == IF cfg.variant = "receiptOnly" THEN out[r].debug ELSE info[r].debug

\* C21: a legacy response whose body is not JSON never throws out of the
\* resolver and never yields an identifier: it becomes the failure diagnostic
\* status "NON_JSON", which is neither a numeric vendor status nor the
\* diagnostic of a network error, and the request is answered with active:false.
C21_NonJson ==
    \A r \in DOMAIN pc :
        (Resolved(r) /\ LastLegacyOutcome(net[r]) = "nonjson") =>
            /\ ~info[r].threw
            /\ info[r].originalTxId = ""
            /\ FailureDebug(r).status = "NON_JSON"
            /\ FailureDebug(r).error = "-"
            /\ LookupCalls(net[r]) = {}
            /\ \A m \in Responses(r) : m.active = "false"

\* C22: the record a decision reports has active = NOT cancelled AND
\* (expiresAt > now OR graceUntil > now), where cancelled = revocation or
\* cancellation date present and an absent expiry or grace period counts as 0;
\* so a non-cancelled record whose expiry has passed is active exactly while
\* its grace period is in the future, and expiresAt = now is not active.
C22_ActiveFormula ==
    (dOut.done /\ ~dOut.d.threw /\ dOut.d.sel # 0) =>
        LET x == DRecords[dOut.d.sel]
        IN  /\ dOut.d.active <=>
                    (~DCancelled(x) /\ (DExpiry(x) > dIn.now \/ DGrace(x) > dIn.now))
            /\ (~DCancelled(x) /\ DExpiry(x) <= dIn.now) =>
                    (dOut.d.active <=> DGrace(x) > dIn.now)

C22_Witness ==
    /\ dOut.done
    /\ dIn.fn = "statuses"
    /\ dOut.d.sel # 0
    /\ ~DCancelled(DRecords[dOut.d.sel])
    /\ DExpiry(DRecords[dOut.d.sel]) = dIn.now
    /\ DGrace(DRecords[dOut.d.sel]) = 0
    /\ ~dOut.d.active

\* the decoder returned a record for the item, or threw
IsDecoded(it) == it.dec # "undef"

\* C23: a status item whose signed transaction the decoder yields no record for
\* is skipped: it is never the record decideActiveFromStatuses returns, and the
\* decision is the one made on the successfully decoded items alone (same
\* selected record, same "no transactions" outcome).
C23_UndecodedSkipped ==
    (dOut.done /\ dIn.fn = "statuses" /\ ~dOut.d.threw) =>
        LET d2 == decideActiveFromStatuses(<<SelectSeq(Flatten(dIn.data), IsDecoded)>>,
                                           dIn.target, dIn.now, TRUE)
        IN  /\ dOut.d.sel # 0 => Flatten(dIn.data)[dOut.d.sel].dec = "ok"
            /\ dOut.d.reason = d2.reason
            /\ dOut.d.active = d2.active
            /\ dOut.d.productId = d2.productId
            /\ dOut.d.expiresAt = d2.expiresAt

\* the records of a legacy payload as authoritative status items: same product
\* id, expiry and cancellation marker, and the grace period the payload holds
\* for the record's product
RECURSIVE AsStatusItems(_, _)
AsStatusItems(json, i) ==
    LET items == ReceiptItems(json)
        pri   == json.pending_renewal_info
    IN  IF i > Len(items) THEN <<>>
        ELSE LET x  == items[i]
                 rn == IF json.hasPri THEN FindRenewal(pri, x.product_id, 1) ELSE 0
             IN  <<Item("ok", x.product_id, x.expires_date_ms, 0, x.cancellation_date_ms,
                        IF rn = 0 THEN 0 ELSE pri[rn].grace_period_expires_date_ms)>>
                 \o AsStatusItems(json, i + 1)

\* C24: the decision is data-source-agnostic. The same candidate records given
\* as a legacy payload to decideActiveFromVerifyReceipt and as status items to
\* decideActiveFromStatuses, with the same target product and clock, yield the
\* same selected product, expiresAt and active flag.
C24_SourceAgnostic ==
    (dOut.done /\ dIn.fn = "receipt") =>
        LET d2 == decideActiveFromStatuses(<<AsStatusItems(dIn.json, 1)>>,
                                           dIn.target, dIn.now, TRUE)
        IN  /\ dOut.d.productId = d2.productId
            /\ dOut.d.expiresAt = d2.expiresAt
            /\ dOut.d.active = d2.active

\* the timeout of a legacy call of request r has elapsed with the call in flight
LegacyLate(r) == \E i \in LegacyCalls(net[r]) : net[r][i].late

\* C25: every legacy call is bounded by the timeout. A call in flight when the
\* timeout elapses is aborted and resolves to the failure outcome
\* NETWORK_ERROR instead of hanging, the request is eventually answered with
\* active:false and reason VERIFY_RECEIPT_ERROR, and no timer stays armed once
\* its call has ended.
C25_LegacyTimeout ==
    /\ [](\A r \in Reqs : \A i \in LegacyCalls(net[r]) :
            /\ net[r][i].late => net[r][i].outcome = "neterr"
            /\ net[r][i].outcome # "pending" => net[r][i].timer # "armed")
    /\ \A r \in Reqs :
          [](LegacyLate(r) =>
                <>(/\ pc[r] = "RESPONDED"
                   /\ resp[r][1].active = "false"
                   /\ resp[r][1].reason = "VERIFY_RECEIPT_ERROR"))


\* the status lookup of request r failed: it threw, or it is overdue
LookupFailed(r) == LookupThrew(r) \/ Overdue(r)

\* C26: the status lookup is invoked at most once per request and is the last
\* outbound call of the request (only legacy POSTs are repeated); when it
\* throws or outlasts the timeout the request is answered with active:false and
\* a reason, and no second lookup is issued.
C26_LookupOnce ==
    /\ [](\A r \in Reqs :
            /\ Cardinality(LookupCalls(net[r])) <= 1
            /\ \A i \in LookupCalls(net[r]) : i = Len(net[r]))
    /\ \A r \in Reqs :
          [](LookupFailed(r) =>
                <>(/\ pc[r] = "RESPONDED"
                   /\ resp[r][1].active = "false"
                   /\ resp[r][1].reason # "-"))


\* request r was answered without an entitlement
Failed(r) == pc[r] = "RESPONDED" /\ resp[r][1].active # "true"

\* the failure path request r took, named by its cause. After a lookup that
\* returned, a response without entitlement and without expiry is the
\* no-candidate outcome of the decision step; a candidate that is merely
\* expired or cancelled is not a failure path ("none").
FailurePath(r) ==
    IF net[r] = <<>>
    THEN (IF ~Truthy(req[r].receipt_b64) THEN "missing receipt"
          ELSE IF pos[r] = "returned" THEN "malformed receipt"
          ELSE "configuration")
    ELSE IF LookupThrew(r) THEN "lookup failure"
    ELSE IF DecodeRaised(r) THEN "unexpected exception"
    ELSE IF LookupOk(r)
    THEN (IF resp[r][1].expiresAt = 0 THEN "no candidate" ELSE "none")
    ELSE CASE LastLegacyOutcome(net[r]) = "nonjson" -> "non-JSON body"
           [] LastLegacyOutcome(net[r]) = "neterr" -> "network error"
           [] LastLegacyOutcome(net[r]) = "0" -> "status 0 without identifier"
           [] OTHER -> "non-zero vendor status"

\* C27: every failure path carries a reason, and two requests that failed on
\* different paths carry different reasons.
C27_DistinctReasons ==
    \A r \in DOMAIN pc :
        Failed(r) /\ FailurePath(r) # "none" =>
            /\ resp[r][1].reason # "-"
            /\ \A q \in DOMAIN pc :
                  Failed(q) /\ FailurePath(q) \notin {"none", FailurePath(r)} =>
                      resp[q][1].reason # resp[r][1].reason


\* the positions of the entries of lri that carry the greatest expires_date_ms
TopExpiry(lri) ==
    {i \in 1..Len(lri) : \A k \in 1..Len(lri) : lri[k].expires_date_ms <= lri[i].expires_date_ms}

\* the last of them
LastTop(lri) == CHOOSE i \in TopExpiry(lri) : \A k \in TopExpiry(lri) : k <= i

\* C28: on a status-0 answer with a non-empty latest_receipt_info the resolver
\* returns the identifier of the entry that comes last among those with the
\* greatest expires_date_ms; the identifier it returns always belongs to an
\* entry of the list whose expiry is the maximum.
C28_LastWinsTies ==
    \A r \in DOMAIN pc :
        (/\ Answered(r)
         /\ cfg.variant # "receiptOnly"
         /\ FinalJson(r).status = "0"
         /\ FinalJson(r).hasLri
         /\ Len(FinalJson(r).latest_receipt_info) > 0) =>
            LET lri == FinalJson(r).latest_receipt_info
            IN  /\ info[r].originalTxId = lri[LastTop(lri)].original_transaction_id
                /\ info[r].originalTxId # "" =>
                      \E i \in TopExpiry(lri) :
                          lri[i].original_transaction_id = info[r].originalTxId


\* requests r (to /verify_by_oid) and q (to /verify_apple_receipt) were both
\* answered, for the same identifier and the same product_id
SameLookup(r, q) ==
    /\ ByOid(r) /\ ~ByOid(q)
    /\ pc[r] = "RESPONDED" /\ pc[q] = "RESPONDED"
    /\ req[r].original_transaction_id # ""
    /\ info[q].originalTxId = req[r].original_transaction_id
    /\ req[q].product_id = req[r].product_id

\* what /verify_by_oid does before it answers: no legacy call, one lookup keyed
\* by the supplied identifier, or HTTP 400 and no call without identifier
OidCalls(r) ==
    /\ LegacyCalls(net[r]) = {}
    /\ Cardinality(LookupCalls(net[r])) <= 1
    /\ \A i \in LookupCalls(net[r]) : net[r][i].key = req[r].original_transaction_id
    /\ pc[r] # "OID_START" =>
          IF req[r].original_transaction_id = ""
          THEN /\ net[r] = <<>>
               /\ pc[r] = "RESPONDED"
               /\ resp[r] = <<Response(400, "false", "MISSING_ORIGINAL_TRANSACTION_ID",
                                       "", 0, NoDebug)>>
          ELSE Cardinality(LookupCalls(net[r])) = 1

\* C29 as stated: /verify_by_oid makes no legacy call and exactly one lookup,
\* keyed by the supplied identifier (400 MISSING_ORIGINAL_TRANSACTION_ID and no
\* call without it), and for the same lookup result, product_id and clock its
\* response equals the one of /verify_apple_receipt.
C29_SameBody ==
    \A r \in DOMAIN pc :
        ByOid(r) =>
            /\ OidCalls(r)
            /\ \A q \in DOMAIN pc : SameLookup(r, q) => resp[r] = resp[q]

\* C29, amended: as above, but the bodies are equal when the lookup returned;
\* when the lookup threw they agree on the HTTP status, active, reason and
\* debug.httpStatusCode, and /verify_by_oid leaves keyId and issuerId out of
\* debug.
C29_SameBodyOnReturn ==
    \A r \in DOMAIN pc :
        ByOid(r) =>
            /\ OidCalls(r)
            /\ \A q \in DOMAIN pc :
                  SameLookup(r, q) =>
                      IF LookupThrew(r)
                      THEN /\ Len(resp[r]) = 1 /\ Len(resp[q]) = 1
                           /\ resp[r][1] = [resp[q][1] EXCEPT !.debug.keyId = "-"]
                           /\ resp[q][1].debug.keyId # "-"
                      ELSE resp[r] = resp[q]

\* both routes grant the entitlement for the identifier "t1"
C29_Witness ==
    \E r, q \in DOMAIN pc :
        /\ ByOid(r)
        /\ SameLookup(r, q)
        /\ LookupOk(r) /\ LookupOk(q)
        /\ req[r].product_id = "p1"
        /\ resp[r][1].active = "true"
        /\ resp[r] = resp[q]

====
